---------------------------- MODULE Spec2Model ----------------------------
(***************************************************************************)
(* The jsonnet command-line driver (src/jsonnet.cpp): argument             *)
(* normalisation, option parsing, input acquisition, the parse / unparse / *)
(* analyse / execute pipeline and the error reporting of main().           *)
(*                                                                         *)
(* Strings are sequences of one-character strings, so that strtol, strtod  *)
(* and the cluster expansion work on characters as the code does.          *)
(* `long' is the 64-bit two's complement integer of an LP64 build and      *)
(* `unsigned' the 32-bit one; both are held as little-endian sequences of  *)
(* 16-bit limbs (4 for long, 2 for unsigned), since the values that matter *)
(* here (2^32, 2^32 - 1) do not fit the model checker's own integers.      *)
(***************************************************************************)
EXTENDS Integers, Sequences, FiniteSets, TLC

(***************************************************************************)
(* Bounds of the exploration.                                              *)
(***************************************************************************)
\* the raw argument lists explored hold at most this many arguments
MaxArgs == 3
\* a RuntimeError carries a stack trace of at most this many frames
MaxTrace == 25

(***************************************************************************)
(* String literals of the source, as character sequences.                  *)
(***************************************************************************)
S_h == <<"-", "h">>
S_help == <<"-", "-", "h", "e", "l", "p">>
S_s == <<"-", "s">>
S_max_stack == <<"-", "-", "m", "a", "x", "-", "s", "t", "a", "c", "k">>
S_gc_min_objects ==
    <<"-", "-", "g", "c", "-", "m", "i", "n", "-", "o", "b", "j", "e", "c", "t", "s">>
S_gc_growth_trigger ==
    <<"-", "-", "g", "c", "-", "g", "r", "o", "w", "t", "h", "-",
      "t", "r", "i", "g", "g", "e", "r">>
S_e == <<"-", "e">>
S_exec == <<"-", "-", "e", "x", "e", "c">>
S_debug_ast == <<"-", "-", "d", "e", "b", "u", "g", "-", "a", "s", "t">>
S_terminator == <<"-", "-">>
S_dash == <<"-">>
S_stdin_name == <<"<", "s", "t", "d", "i", "n", ">">>
S_cmdline_name == <<"<", "c", "m", "d", "l", "i", "n", "e", ">">>

EXIT_SUCCESS == "EXIT_SUCCESS"
EXIT_FAILURE == "EXIT_FAILURE"

(***************************************************************************)
(* The raw arguments the exploration draws from: every option, a cluster,  *)
(* file names and numerals (valid, zero, negative, fractional, beyond      *)
(* 32 bits, malformed and empty).                                          *)
(***************************************************************************)
A_foo == <<"f", "o", "o">>
A_bar == <<"b", "a", "r">>
A_5 == <<"5">>
A_0 == <<"0">>
A_neg1 == <<"-", "1">>
A_2pow32 == <<"4", "2", "9", "4", "9", "6", "7", "2", "9", "6">>
A_2_5 == <<"2", ".", "5">>
A_neg0_5 == <<"-", "0", ".", "5">>
A_neg01 == <<"-", "0", "1">>
A_es == <<"-", "e", "s">>
A_empty == << >>

Tokens ==
    { S_h, S_help, S_s, S_max_stack, S_gc_min_objects, S_gc_growth_trigger,
      S_e, S_exec, S_debug_ast, S_terminator, S_dash,
      A_foo, A_bar, A_5, A_0, A_neg1, A_2pow32, A_2_5, A_neg0_5, A_neg01,
      A_es, A_empty }

RECURSIVE SeqsUpTo(_, _)
SeqsUpTo(S, n) ==
    IF n = 0 THEN { << >> }
    ELSE LET shorter == SeqsUpTo(S, n - 1)
         IN  shorter \cup { Append(q, x) : q \in shorter, x \in S }

\* what a read of a whole input stream (standard input, an opened file) returns
Contents == { << >>, <<"{", "}">> }

\* what strtod may find at an address whose string has been destroyed,
\* besides the bytes that were there
GarbageReads == { << >>, <<"7">>, <<"-", "3">> }

(***************************************************************************)
(* simplify_args                                                           *)
(***************************************************************************)
\* -abc becomes -a -b -c
ExpandCluster(arg) == [j \in 1..(Len(arg) - 1) |-> <<"-", arg[j + 1]>>]

IsCluster(arg) == Len(arg) > 2 /\ arg[1] = "-" /\ arg[2] # "-"

RECURSIVE SimplifyFrom(_, _)
SimplifyFrom(av, k) ==
    IF k > Len(av) THEN << >>
    ELSE IF av[k] = S_terminator THEN SubSeq(av, k, Len(av))
    ELSE IF IsCluster(av[k]) THEN ExpandCluster(av[k]) \o SimplifyFrom(av, k + 1)
    ELSE <<av[k]>> \o SimplifyFrom(av, k + 1)

simplify_args(av) == SimplifyFrom(av, 1)

(***************************************************************************)
(* Integers of the build: limbs of 16 bits, least significant first.       *)
(***************************************************************************)
LimbBase == 2^16
LimbHalf == 2^15

\* an int of the model (0 <= n < 2^31) as an unsigned
UnsignedOf(n) == <<n % LimbBase, n \div LimbBase>>

LONG_MAX == <<LimbBase - 1, LimbBase - 1, LimbBase - 1, LimbHalf - 1>>
LONG_MIN == <<0, 0, 0, LimbHalf>>

\* long -> unsigned: the value modulo 2^32
LongToUnsigned(l) == <<l[1], l[2]>>

\* unsigned -> long: every unsigned value fits a 64-bit long
UnsignedToLong(u) == <<u[1], u[2], 0, 0>>

\* l < 1, on a two's complement long
LongLessThanOne(l) == l[4] >= LimbHalf \/ l = <<0, 0, 0, 0>>

\* u < 1, on an unsigned
UnsignedLessThanOne(u) == u = <<0, 0>>

\* 10 * m + d on a 4-limb magnitude; carry is what does not fit 64 bits
MulAdd10(m, d) ==
    LET t1 == m[1] * 10 + d
        t2 == m[2] * 10 + (t1 \div LimbBase)
        t3 == m[3] * 10 + (t2 \div LimbBase)
        t4 == m[4] * 10 + (t3 \div LimbBase)
    IN  [limbs |-> <<t1 % LimbBase, t2 % LimbBase, t3 % LimbBase, t4 % LimbBase>>,
         carry |-> t4 \div LimbBase]

\* -m modulo 2^64
Negate(m) ==
    LET n1 == (LimbBase - 1 - m[1]) + 1
        n2 == (LimbBase - 1 - m[2]) + (n1 \div LimbBase)
        n3 == (LimbBase - 1 - m[3]) + (n2 \div LimbBase)
        n4 == (LimbBase - 1 - m[4]) + (n3 \div LimbBase)
    IN  <<n1 % LimbBase, n2 % LimbBase, n3 % LimbBase, n4 % LimbBase>>

(***************************************************************************)
(* std::strtol(arg, &ep, 10) and std::strtod(arg, &ep)                     *)
(***************************************************************************)
DigitChars == <<"0", "1", "2", "3", "4", "5", "6", "7", "8", "9">>
IsDigit(c) == \E d \in 1..10 : DigitChars[d] = c
DigitVal(c) == (CHOOSE d \in 1..10 : DigitChars[d] = c) - 1
IsSpace(c) == c \in {" ", "\t", "\n", "\r"}

RECURSIVE SkipSpace(_, _)
SkipSpace(str, k) ==
    IF k <= Len(str) /\ IsSpace(str[k]) THEN SkipSpace(str, k + 1) ELSE k

\* the index after an optional sign at k
SkipSign(str, k) == IF k <= Len(str) /\ str[k] \in {"+", "-"} THEN k + 1 ELSE k

\* the index after the run of digits that starts at k
RECURSIVE SkipDigits(_, _)
SkipDigits(str, k) ==
    IF k <= Len(str) /\ IsDigit(str[k]) THEN SkipDigits(str, k + 1) ELSE k

\* the magnitude of the digits str[k..e-1]; ovf once it passed 2^64 - 1
RECURSIVE Magnitude(_, _, _, _)
Magnitude(str, k, e, acc) ==
    IF k >= e THEN acc
    ELSE LET step == MulAdd10(acc.mag, DigitVal(str[k]))
         IN  Magnitude(str, k + 1, e,
                       [mag |-> step.limbs, ovf |-> acc.ovf \/ step.carry > 0])

\* r is the long returned, ep the index (1-based) of the first character not
\* consumed: Len(str) + 1 is the terminating '\0', 1 is "no conversion"
strtol(str) ==
    LET b == SkipSpace(str, 1)
        d == SkipSign(str, b)
        e == SkipDigits(str, d)
        neg == d > b /\ str[b] = "-"
        m == Magnitude(str, d, e, [mag |-> <<0, 0, 0, 0>>, ovf |-> FALSE])
        tooBigPos == m.ovf \/ m.mag[4] >= LimbHalf
        tooBigNeg == m.ovf \/ m.mag[4] > LimbHalf
                     \/ (m.mag[4] = LimbHalf /\ <<m.mag[1], m.mag[2], m.mag[3]>> # <<0, 0, 0>>)
    IN  IF e = d THEN [r |-> <<0, 0, 0, 0>>, ep |-> 1]
        ELSE IF neg THEN [r |-> IF tooBigNeg THEN LONG_MIN ELSE Negate(m.mag), ep |-> e]
        ELSE [r |-> IF tooBigPos THEN LONG_MAX ELSE m.mag, ep |-> e]

\* the decimal forms of strtod: [sign] digits [. digits] with a digit somewhere
\* (no argument drawn here has an exponent, a hexadecimal, inf or nan form).
\* The double is kept as its sign and its digits.
strtod(str) ==
    LET b == SkipSpace(str, 1)
        d == SkipSign(str, b)
        e1 == SkipDigits(str, d)
        dot == e1 <= Len(str) /\ str[e1] = "."
        e2 == IF dot THEN SkipDigits(str, e1 + 1) ELSE e1
        neg == d > b /\ str[b] = "-"
        ip == SubSeq(str, d, e1 - 1)
        fp == IF dot THEN SubSeq(str, e1 + 1, e2 - 1) ELSE << >>
    IN  IF Len(ip) + Len(fp) = 0
        THEN [neg |-> FALSE, ip |-> << >>, fp |-> << >>, ep |-> 1]
        ELSE [neg |-> neg, ip |-> ip, fp |-> fp, ep |-> e2]

DoubleOf(x) == [neg |-> x.neg, ip |-> x.ip, fp |-> x.fp]

\* x < 0 on a double: -0.0 is not less than 0
DoubleLessThanZero(x) ==
    x.neg /\ \E k \in 1..Len(x.ip \o x.fp) : (x.ip \o x.fp)[k] # "0"

\* the test of both parsers: *ep != '\0' || *arg == '\0'
NotWholeString(str, ep) == ep # Len(str) + 1 \/ Len(str) = 0

(***************************************************************************)
(* The state of one invocation of main().                                  *)
(***************************************************************************)
VARIABLES
    argv,               \* argv[1..argc-1], the raw arguments
    args,               \* the vector simplify_args returned
    i,                  \* the cursor of the option loop (1-based)
    remaining_args,     \* the positional arguments collected
    filename,
    gc_growth_trigger,
    max_stack,
    gc_min_objects,
    filename_is_code,
    debug_ast,
    strtol_log,         \* what strtol_check returned, per option, in order
    strtod_log,         \* per strtod call: the string passed and the string read
    input,              \* the source text handed to the parser
    stackTrace,         \* e.stackTrace of the RuntimeError caught
    calls,              \* the collaborators invoked, in order, with arguments
    cout,               \* what was written to standard output
    cerr,               \* what was written to standard error
    pc,                 \* where main() is
    exit_status         \* the status the process ended with

vars == <<argv, args, i, remaining_args, filename, gc_growth_trigger, max_stack,
          gc_min_objects, filename_is_code, debug_ast, strtol_log, strtod_log,
          input, stackTrace, calls, cout, cerr, pc, exit_status>>

config == <<filename, gc_growth_trigger, max_stack, gc_min_objects,
            filename_is_code, debug_ast, strtol_log, strtod_log>>
pipeline == <<input, stackTrace, calls>>

\* the initial values of main's locals
DefaultFilename == S_dash
DefaultGcGrowthTrigger == [neg |-> FALSE, ip |-> <<"2">>, fp |-> <<"0">>]
DefaultMaxStack == UnsignedOf(500)
DefaultGcMinObjects == UnsignedOf(1000)

Init ==
    /\ argv \in SeqsUpTo(Tokens, MaxArgs)
    /\ args = << >>
    /\ i = 1
    /\ remaining_args = << >>
    /\ filename = DefaultFilename
    /\ gc_growth_trigger = DefaultGcGrowthTrigger
    /\ max_stack = DefaultMaxStack
    /\ gc_min_objects = DefaultGcMinObjects
    /\ filename_is_code = FALSE
    /\ debug_ast = FALSE
    /\ strtol_log = << >>
    /\ strtod_log = << >>
    /\ input = << >>
    /\ stackTrace = << >>
    /\ calls = << >>
    /\ cout = << >>
    /\ cerr = << >>
    /\ pc = "simplify_args"
    /\ exit_status = "running"

(***************************************************************************)
(* Output.  A line is a tuple whose first element names the text written.  *)
(***************************************************************************)
\* the text usage() writes
UsageText == <<"Usage:">>
ExpectedAnotherLine == <<"Expected another commandline argument.">>
InvalidIntegerLine(str) == <<"ERROR: Invalid integer", str>>
InvalidMaxStackLine == <<"ERROR: Invalid --max-stack value">>
InvalidGcMinObjectsLine == <<"ERROR: Invalid --gc-min-objects value">>
InvalidNumberLine == <<"ERROR: Invalid number">>
InvalidGcGrowthTriggerLine == <<"ERROR: Invalid --gc-growth-trigger">>
FilenameAlreadyLine(f) == <<"ERROR: Filename already specified as", f>>
MustGiveFilenameLine == <<"ERROR: Must give filename when using -e, --exec">>
OpeningInputFileLine(f) == <<"Opening input file: ", f>>
StaticErrorLine == <<"STATIC ERROR: ">>
RuntimeErrorLine == <<"RUNTIME ERROR: ">>
EllipsisLine == <<"...">>
FrameLine(f) == <<"frame", f>>

\* exit(status), or return status from main
Exit(status) == pc' = "exited" /\ exit_status' = status

(***************************************************************************)
(* main: auto args = simplify_args(argc, argv)                             *)
(***************************************************************************)
SimplifyArgs ==
    /\ pc = "simplify_args"
    /\ args' = simplify_args(argv)
    /\ pc' = "options"
    /\ UNCHANGED <<argv, i, remaining_args, config, pipeline, cout, cerr, exit_status>>

(***************************************************************************)
(* The option loop: one action per branch of one iteration.                *)
(***************************************************************************)
AtOption == pc = "options" /\ i <= Len(args)

IsHelp(arg) == arg = S_h \/ arg = S_help
IsMaxStack(arg) == arg = S_s \/ arg = S_max_stack
IsGcMinObjects(arg) == arg = S_gc_min_objects
IsGcGrowthTrigger(arg) == arg = S_gc_growth_trigger
IsExec(arg) == arg = S_e \/ arg = S_exec
IsDebugAst(arg) == arg = S_debug_ast
IsTerminator(arg) == arg = S_terminator
IsOption(arg) ==
    \/ IsHelp(arg) \/ IsMaxStack(arg) \/ IsGcMinObjects(arg) \/ IsGcGrowthTrigger(arg)
    \/ IsExec(arg) \/ IsDebugAst(arg) \/ IsTerminator(arg)

\* next_arg found no argument after the option: it exits without usage()
NextArgMissing == i + 1 > Len(args)

NextArgFails ==
    /\ NextArgMissing
    /\ i' = i + 1
    /\ cerr' = Append(cerr, ExpectedAnotherLine)
    /\ Exit(EXIT_FAILURE)

\* strtol_check found str no integer: message, usage(), exit
StrtolCheckFails(str) ==
    /\ NotWholeString(str, strtol(str).ep)
    /\ cerr' = cerr \o <<InvalidIntegerLine(str), UsageText>>
    /\ Exit(EXIT_FAILURE)

StrtolCheckOk(str) == ~NotWholeString(str, strtol(str).ep)

OptHelp ==
    /\ AtOption
    /\ IsHelp(args[i])
    /\ cout' = Append(cout, UsageText)
    /\ Exit(EXIT_SUCCESS)
    /\ UNCHANGED <<argv, args, i, remaining_args, config, pipeline, cerr>>

OptMaxStack ==
    /\ AtOption
    /\ IsMaxStack(args[i])
    /\ \/ /\ NextArgFails
          /\ UNCHANGED <<max_stack, strtol_log>>
       \/ /\ ~NextArgMissing
          /\ StrtolCheckFails(args[i + 1])
          /\ i' = i + 1
          /\ UNCHANGED <<max_stack, strtol_log>>
       \/ /\ ~NextArgMissing
          /\ StrtolCheckOk(args[i + 1])
          /\ LET l == strtol(args[i + 1]).r
             IN  /\ strtol_log' = Append(strtol_log, [opt |-> "max-stack", r |-> l])
                 /\ IF LongLessThanOne(l)
                    THEN /\ cerr' = cerr \o <<InvalidMaxStackLine, UsageText>>
                         /\ Exit(EXIT_FAILURE)
                         /\ i' = i + 1
                         /\ UNCHANGED max_stack
                    ELSE /\ max_stack' = LongToUnsigned(l)
                         /\ i' = i + 2
                         /\ UNCHANGED <<cerr, pc, exit_status>>
    /\ UNCHANGED <<argv, args, remaining_args, filename, gc_growth_trigger,
                   gc_min_objects, filename_is_code, debug_ast, strtod_log,
                   pipeline, cout>>

\* long l = gc_min_objects = strtol_check(...): the parsed long is stored in
\* the unsigned first, and l is read back from the unsigned
OptGcMinObjects ==
    /\ AtOption
    /\ IsGcMinObjects(args[i])
    /\ \/ /\ NextArgFails
          /\ UNCHANGED <<gc_min_objects, strtol_log>>
       \/ /\ ~NextArgMissing
          /\ StrtolCheckFails(args[i + 1])
          /\ i' = i + 1
          /\ UNCHANGED <<gc_min_objects, strtol_log>>
       \/ /\ ~NextArgMissing
          /\ StrtolCheckOk(args[i + 1])
          /\ LET r == strtol(args[i + 1]).r
                 stored == LongToUnsigned(r)
                 l == UnsignedToLong(stored)
             IN  /\ strtol_log' = Append(strtol_log, [opt |-> "gc-min-objects", r |-> r])
                 /\ IF LongLessThanOne(l)
                    THEN /\ cerr' = cerr \o <<InvalidGcMinObjectsLine, UsageText>>
                         /\ Exit(EXIT_FAILURE)
                         /\ i' = i + 1
                         /\ gc_min_objects' = stored
                    ELSE /\ gc_min_objects' = LongToUnsigned(l)
                         /\ i' = i + 2
                         /\ UNCHANGED <<cerr, pc, exit_status>>
    /\ UNCHANGED <<argv, args, remaining_args, filename, gc_growth_trigger,
                   max_stack, filename_is_code, debug_ast, strtod_log,
                   pipeline, cout>>

\* const char *arg = next_arg(i,args).c_str(): the string next_arg returned is
\* destroyed at the end of that statement and arg dangles; strtod and the two
\* tests read whatever is at that address then
DanglingRead(str) == {str} \cup GarbageReads

OptGcGrowthTrigger ==
    /\ AtOption
    /\ IsGcGrowthTrigger(args[i])
    /\ \/ /\ NextArgFails
          /\ UNCHANGED <<gc_growth_trigger, strtod_log>>
       \/ /\ ~NextArgMissing
          /\ \E arg \in DanglingRead(args[i + 1]) :
                LET x == strtod(arg)
                IN  /\ strtod_log' =
                           Append(strtod_log, [passed |-> args[i + 1], read |-> arg])
                    /\ gc_growth_trigger' = DoubleOf(x)
                    /\ IF NotWholeString(arg, x.ep)
                       THEN /\ cerr' = cerr \o <<InvalidNumberLine, UsageText>>
                            /\ Exit(EXIT_FAILURE)
                            /\ i' = i + 1
                       ELSE IF DoubleLessThanZero(DoubleOf(x))
                       THEN /\ cerr' = cerr \o <<InvalidGcGrowthTriggerLine, UsageText>>
                            /\ Exit(EXIT_FAILURE)
                            /\ i' = i + 1
                       ELSE /\ i' = i + 2
                            /\ UNCHANGED <<cerr, pc, exit_status>>
    /\ UNCHANGED <<argv, args, remaining_args, filename, max_stack, gc_min_objects,
                   filename_is_code, debug_ast, strtol_log, pipeline, cout>>

OptExec ==
    /\ AtOption
    /\ IsExec(args[i])
    /\ filename_is_code' = TRUE
    /\ i' = i + 1
    /\ UNCHANGED <<argv, args, remaining_args, filename, gc_growth_trigger, max_stack,
                   gc_min_objects, debug_ast, strtol_log, strtod_log, pipeline, cout,
                   cerr, pc, exit_status>>

OptDebugAst ==
    /\ AtOption
    /\ IsDebugAst(args[i])
    /\ debug_ast' = TRUE
    /\ i' = i + 1
    /\ UNCHANGED <<argv, args, remaining_args, filename, gc_growth_trigger, max_stack,
                   gc_min_objects, filename_is_code, strtol_log, strtod_log, pipeline,
                   cout, cerr, pc, exit_status>>

\* "--": all subsequent args are not options, and the loop ends
OptTerminator ==
    /\ AtOption
    /\ IsTerminator(args[i])
    /\ remaining_args' = remaining_args \o SubSeq(args, i + 1, Len(args))
    /\ i' = Len(args) + 1
    /\ pc' = "positionals"
    /\ UNCHANGED <<argv, args, config, pipeline, cout, cerr, exit_status>>

OptPositional ==
    /\ AtOption
    /\ ~IsOption(args[i])
    /\ remaining_args' = Append(remaining_args, args[i])
    /\ i' = i + 1
    /\ UNCHANGED <<argv, args, config, pipeline, cout, cerr, pc, exit_status>>

\* i reached args.size()
OptionsDone ==
    /\ pc = "options"
    /\ i > Len(args)
    /\ pc' = "positionals"
    /\ UNCHANGED <<argv, args, i, remaining_args, config, pipeline, cout, cerr,
                   exit_status>>

(***************************************************************************)
(* After the loop: the filename and the two checks on the positionals.     *)
(***************************************************************************)
\* if (remaining_args.size() > 0) filename = remaining_args[0]
FilenameAfterLoop == IF Len(remaining_args) > 0 THEN remaining_args[1] ELSE filename

\* a variant whose bound is off by one
TooManyFilenames_OffByOne(ra) == Len(ra) > 2

TooManyFilenames(ra) == Len(ra) > 1

\* a variant that lets -e go on without a positional
MissingCode_Never(fic, ra) == FALSE

MissingCode(fic, ra) == fic /\ Len(ra) = 0

FilenameAlreadySpecified ==
    /\ pc = "positionals"
    /\ TooManyFilenames(remaining_args)
    /\ filename' = FilenameAfterLoop
    /\ cerr' = cerr \o <<FilenameAlreadyLine(FilenameAfterLoop), UsageText>>
    /\ Exit(EXIT_FAILURE)
    /\ UNCHANGED <<argv, args, i, remaining_args, gc_growth_trigger, max_stack,
                   gc_min_objects, filename_is_code, debug_ast, strtol_log,
                   strtod_log, pipeline, cout>>

MustGiveFilename ==
    /\ pc = "positionals"
    /\ ~TooManyFilenames(remaining_args)
    /\ MissingCode(filename_is_code, remaining_args)
    /\ filename' = FilenameAfterLoop
    /\ cerr' = cerr \o <<MustGiveFilenameLine, UsageText>>
    /\ Exit(EXIT_FAILURE)
    /\ UNCHANGED <<argv, args, i, remaining_args, gc_growth_trigger, max_stack,
                   gc_min_objects, filename_is_code, debug_ast, strtol_log,
                   strtod_log, pipeline, cout>>

PositionalsOk ==
    /\ pc = "positionals"
    /\ ~TooManyFilenames(remaining_args)
    /\ ~MissingCode(filename_is_code, remaining_args)
    /\ filename' = FilenameAfterLoop
    /\ pc' = "input"
    /\ UNCHANGED <<argv, args, i, remaining_args, gc_growth_trigger, max_stack,
                   gc_min_objects, filename_is_code, debug_ast, strtol_log,
                   strtod_log, pipeline, cout, cerr, exit_status>>

(***************************************************************************)
(* Input acquisition.                                                      *)
(***************************************************************************)
Call(fn, a) == [fn |-> fn, args |-> a]
Called(fn) == \E k \in 1..Len(calls) : calls[k].fn = fn
TimesCalled(fn) == Cardinality({k \in 1..Len(calls) : calls[k].fn = fn})

READ_STDIN == "std::cin"
OPEN_FILE == "std::ifstream::open"
PARSE == "jsonnet_parse"
UNPARSE == "jsonnet_unparse_jsonnet"
STATIC_ANALYSIS == "jsonnet_static_analysis"
VM_EXECUTE == "jsonnet_vm_execute"
Stages == {PARSE, UNPARSE, STATIC_ANALYSIS, VM_EXECUTE}

InputFromCode ==
    /\ pc = "input"
    /\ filename_is_code
    /\ input' = filename
    /\ filename' = S_cmdline_name
    /\ pc' = "parse"
    /\ UNCHANGED <<argv, args, i, remaining_args, gc_growth_trigger, max_stack,
                   gc_min_objects, filename_is_code, debug_ast, strtol_log,
                   strtod_log, stackTrace, calls, cout, cerr, exit_status>>

InputFromStdin ==
    /\ pc = "input"
    /\ ~filename_is_code
    /\ filename = S_dash
    /\ filename' = S_stdin_name
    /\ calls' = Append(calls, Call(READ_STDIN, << >>))
    /\ \E text \in Contents : input' = text
    /\ pc' = "parse"
    /\ UNCHANGED <<argv, args, i, remaining_args, gc_growth_trigger, max_stack,
                   gc_min_objects, filename_is_code, debug_ast, strtol_log,
                   strtod_log, stackTrace, cout, cerr, exit_status>>

InputFromFile ==
    /\ pc = "input"
    /\ ~filename_is_code
    /\ filename # S_dash
    /\ calls' = Append(calls, Call(OPEN_FILE, <<filename>>))
    /\ \E text \in Contents : input' = text
    /\ pc' = "parse"
    /\ UNCHANGED <<argv, args, i, remaining_args, config, stackTrace, cout, cerr,
                   exit_status>>

\* a variant that reports the failed open and goes on to the parser
OpenFileFails_GoesOn ==
    /\ pc = "input"
    /\ ~filename_is_code
    /\ filename # S_dash
    /\ calls' = Append(calls, Call(OPEN_FILE, <<filename>>))
    /\ cerr' = Append(cerr, OpeningInputFileLine(filename))
    /\ pc' = "parse"
    /\ UNCHANGED <<argv, args, i, remaining_args, config, input, stackTrace, cout,
                   exit_status>>

\* !f.good(): perror and return EXIT_FAILURE
OpenFileFails ==
    /\ pc = "input"
    /\ ~filename_is_code
    /\ filename # S_dash
    /\ calls' = Append(calls, Call(OPEN_FILE, <<filename>>))
    /\ cerr' = Append(cerr, OpeningInputFileLine(filename))
    /\ Exit(EXIT_FAILURE)
    /\ UNCHANGED <<argv, args, i, remaining_args, config, input, stackTrace, cout>>

(***************************************************************************)
(* The pipeline and the two catch blocks.                                  *)
(***************************************************************************)
\* catch (StaticError &e)
CatchStaticError ==
    /\ cerr' = Append(cerr, StaticErrorLine)
    /\ Exit(EXIT_FAILURE)

Parse ==
    /\ pc = "parse"
    /\ calls' = Append(calls, Call(PARSE, <<filename, input>>))
    /\ \/ pc' = "parsed" /\ UNCHANGED <<cerr, exit_status>>
       \/ CatchStaticError
    /\ UNCHANGED <<argv, args, i, remaining_args, config, input, stackTrace, cout>>

\* the text the unparser returns for the AST parsed from input, and the text
\* the VM returns for it
UnparsedText(src) == <<UNPARSE, src>>
ResultText(src) == <<VM_EXECUTE, src>>

\* if (debug_ast) { unparse } else { analyse and execute }
RunsUnparser(d) == d
\* a variant that analyses and executes whatever the flag
RunsExecution_Always(d) == TRUE

RunsExecution(d) == ~d

DebugAstUnparse ==
    /\ pc = "parsed"
    /\ RunsUnparser(debug_ast)
    /\ calls' = Append(calls, Call(UNPARSE, <<input>>))
    /\ cout' = Append(cout, UnparsedText(input))
    /\ Exit(EXIT_SUCCESS)
    /\ UNCHANGED <<argv, args, i, remaining_args, config, input, stackTrace, cerr>>

StaticAnalysis ==
    /\ pc = "parsed"
    /\ RunsExecution(debug_ast)
    /\ calls' = Append(calls, Call(STATIC_ANALYSIS, <<input>>))
    /\ \/ pc' = "analysed" /\ UNCHANGED <<cerr, exit_status>>
       \/ CatchStaticError
    /\ UNCHANGED <<argv, args, i, remaining_args, config, input, stackTrace, cout>>

max_above == 10
max_below == 10

\* a variant that also suppresses the first frame of the tail window
InMiddle_Inclusive(idx, sz) == idx >= max_above /\ idx <= sz - max_below

\* frame idx of a trace of sz frames is in the suppressed middle
InMiddle(idx, sz) == idx >= max_above /\ idx < sz - max_below

\* the lines the loop over e.stackTrace writes from frame idx (0-based) on
RECURSIVE RenderFrom(_, _)
RenderFrom(trace, idx) ==
    IF idx >= Len(trace) THEN << >>
    ELSE (IF InMiddle(idx, Len(trace))
          THEN (IF idx = max_above THEN <<EllipsisLine>> ELSE << >>)
          ELSE <<FrameLine(trace[idx + 1])>>)
         \o RenderFrom(trace, idx + 1)

\* the stack trace of a RuntimeError of sz frames: frame k is the k-th frame
TraceOf(sz) == [k \in 1..sz |-> k - 1]

VmArgs == [max_stack |-> max_stack, gc_min_objects |-> gc_min_objects,
           gc_growth_trigger |-> gc_growth_trigger]

VmExecute ==
    /\ pc = "analysed"
    /\ calls' = Append(calls, Call(VM_EXECUTE, VmArgs))
    /\ \/ /\ cout' = Append(cout, ResultText(input))
          /\ Exit(EXIT_SUCCESS)
          /\ UNCHANGED <<cerr, stackTrace>>
       \/ \E sz \in 0..MaxTrace :
             \* catch (RuntimeError &e)
             /\ stackTrace' = TraceOf(sz)
             /\ cerr' = Append(cerr, RuntimeErrorLine) \o RenderFrom(TraceOf(sz), 0)
             /\ Exit(EXIT_FAILURE)
             /\ UNCHANGED cout
    /\ UNCHANGED <<argv, args, i, remaining_args, config, input>>

Next ==
    \/ SimplifyArgs
    \/ OptHelp
    \/ OptMaxStack
    \/ OptGcMinObjects
    \/ OptGcGrowthTrigger
    \/ OptExec
    \/ OptDebugAst
    \/ OptTerminator
    \/ OptPositional
    \/ OptionsDone
    \/ FilenameAlreadySpecified
    \/ MustGiveFilename
    \/ PositionalsOk
    \/ InputFromCode
    \/ InputFromStdin
    \/ InputFromFile
    \/ OpenFileFails
    \/ Parse
    \/ DebugAstUnparse
    \/ StaticAnalysis
    \/ VmExecute

Spec == Init /\ [][Next]_vars

(***************************************************************************)
(* Vocabulary of the properties.                                           *)
(***************************************************************************)
Exited == pc = "exited"
OptionParsing == pc \in {"simplify_args", "options", "positionals"}
\* the run went on after the option loop and the checks on the positionals
PastOptionParsing == ~OptionParsing /\ (Exited => calls # << >>)
StageCalled == \E k \in 1..Len(calls) : calls[k].fn \in Stages
Written(out, tag) == \E k \in 1..Len(out) : out[k][1] = tag
Fns == [k \in 1..Len(calls) |-> calls[k].fn]
IsPrefix(p, q) == Len(p) <= Len(q) /\ SubSeq(q, 1, Len(p)) = p
Suffix(q, n) == SubSeq(q, Len(q) - n + 1, Len(q))
HasTerminator(av) == \E k \in 1..Len(av) : av[k] = S_terminator
FirstTerminator(av) ==
    CHOOSE k \in 1..Len(av) :
        av[k] = S_terminator /\ \A j \in 1..(k - 1) : av[j] # S_terminator
\* every strtod call so far read the bytes of the string it was passed
ReadsIntact == \A k \in 1..Len(strtod_log) : strtod_log[k].read = strtod_log[k].passed
\* str is a well-formed number below zero
DenotesNegative(str) ==
    ~NotWholeString(str, strtod(str).ep) /\ DoubleLessThanZero(strtod(str))

(***************************************************************************)
(* C1.  A well-formed integer below 1 after --gc-min-objects ends the      *)
(* process with failure status before any pipeline stage: once strtol      *)
(* returned a value below 1 for the option, the process has exited with    *)
(* failure and no stage (parser, unparser, analyzer, VM) was invoked.      *)
(***************************************************************************)
C1_GcMinObjectsBelowOneExits ==
    \A k \in 1..Len(strtol_log) :
        (strtol_log[k].opt = "gc-min-objects" /\ LongLessThanOne(strtol_log[k].r))
            => (Exited /\ exit_status = EXIT_FAILURE /\ ~StageCalled)

(***************************************************************************)
(* C2.  The VM receives as max_stack exactly the last integer n >= 1 given *)
(* to -s / --max-stack, also for n beyond 32 bits, and never a max_stack   *)
(* below 1.                                                                *)
(***************************************************************************)
MaxStackEntries == {k \in 1..Len(strtol_log) : strtol_log[k].opt = "max-stack"}
LastMaxStack ==
    strtol_log[CHOOSE k \in MaxStackEntries : \A j \in MaxStackEntries : j <= k].r

C2_MaxStackThreadedUnchanged ==
    \A k \in 1..Len(calls) :
        calls[k].fn = VM_EXECUTE =>
            /\ ~UnsignedLessThanOne(calls[k].args.max_stack)
            /\ MaxStackEntries # {} =>
                   UnsignedToLong(calls[k].args.max_stack) = LastMaxStack

(***************************************************************************)
(* C3.  When the raw argument that follows --gc-growth-trigger denotes a   *)
(* negative number, neither the parser nor the VM is ever invoked.  The    *)
(* statement is restricted to the runs in which every read through the     *)
(* dangling pointer found the bytes of the argument, so that what refutes  *)
(* it is the handling of the argument and no stray read.                   *)
(***************************************************************************)
NegativeGrowthTriggerGiven ==
    \E k \in 1..(Len(argv) - 1) :
        argv[k] = S_gc_growth_trigger /\ DenotesNegative(argv[k + 1])

C3_NegativeGrowthTriggerNeverRuns ==
    (NegativeGrowthTriggerGiven /\ ReadsIntact) =>
        ~Called(PARSE) /\ ~Called(VM_EXECUTE)

(***************************************************************************)
(* C4.  With a "--" among the raw arguments, the normalizer emits the      *)
(* first "--" and all that follows it verbatim, and in every run that gets *)
(* past option parsing the tokens after that "--" are the last positional  *)
(* arguments, in order and unchanged (none was taken as an option).        *)
(***************************************************************************)
C4_AfterTerminatorVerbatim ==
    HasTerminator(argv) =>
        LET k == FirstTerminator(argv)
            n == Len(argv) - k
        IN  /\ pc # "simplify_args" =>
                   /\ Len(args) >= n + 1
                   /\ Suffix(args, n + 1) = SubSeq(argv, k, Len(argv))
            /\ PastOptionParsing =>
                   /\ Len(remaining_args) >= n
                   /\ Suffix(remaining_args, n) = SubSeq(argv, k + 1, Len(argv))

\* the same, in the runs whose reads through the dangling pointer found the
\* bytes of the argument: this part of C4 does hold
AfterTerminatorVerbatimIfReadsIntact == ReadsIntact => C4_AfterTerminatorVerbatim

(***************************************************************************)
(* C5, as claimed.  Whenever two or more positional arguments were         *)
(* collected, whatever the options and their places, the process ends with *)
(* failure status and the "Filename already specified" error.              *)
(***************************************************************************)
C5_TwoPositionalsAlwaysFail ==
    (Exited /\ Len(remaining_args) >= 2) =>
        /\ exit_status = EXIT_FAILURE
        /\ Written(cerr, FilenameAlreadyLine(remaining_args[1])[1])

(***************************************************************************)
(* C5, amended.  When the option loop runs to its end with two or more     *)
(* positional arguments collected, the next step writes "Filename already  *)
(* specified", naming the first positional, and the usage text to standard *)
(* error and exits with failure; nothing was read or invoked.              *)
(***************************************************************************)
C5_TwoPositionalsFail ==
    [][(pc = "positionals" /\ Len(remaining_args) >= 2) =>
          /\ pc' = "exited"
          /\ exit_status' = EXIT_FAILURE
          /\ cerr' = cerr \o <<FilenameAlreadyLine(remaining_args[1]), UsageText>>
          /\ cout' = cout
          /\ calls' = << >>]_vars

C5_Witness ==
    /\ Exited
    /\ exit_status = EXIT_FAILURE
    /\ Len(remaining_args) = 2
    /\ filename_is_code
    /\ Written(cerr, "ERROR: Filename already specified as")

(***************************************************************************)
(* C6.  Every option-validation failure (an exit with failure status       *)
(* before input acquisition) has written the usage text to standard error. *)
(***************************************************************************)
C6_ValidationFailureWritesUsage ==
    (Exited /\ exit_status = EXIT_FAILURE /\ calls = << >>) =>
        /\ Written(cerr, UsageText[1])
        /\ cout = << >>

(***************************************************************************)
(* C7.  The trace of a RuntimeError is written bounded: frame i is written *)
(* iff i < 10 or i >= sz - 10, the frames written are in increasing order, *)
(* and the ellipsis is written once, right after frame 9 and before frame  *)
(* sz - 10, iff sz > 20: 21 lines for 25 frames, sz lines up to 20 frames. *)
(***************************************************************************)
RuntimeErrorReported == cerr # << >> /\ cerr[1] = RuntimeErrorLine
TraceLines == Tail(cerr)
IsFrameLine(line) == line[1] = "frame"
IsEllipsis(line) == line[1] = "..."

C7_BoundedTrace ==
    RuntimeErrorReported =>
        LET sz == Len(stackTrace)
            out == TraceLines
            n == Len(out)
        IN  /\ \A f \in 0..(sz - 1) :
                   (\E k \in 1..n : IsFrameLine(out[k]) /\ out[k][2] = f)
                       <=> (f < 10 \/ f >= sz - 10)
            /\ \A j, k \in 1..n :
                   (j < k /\ IsFrameLine(out[j]) /\ IsFrameLine(out[k]))
                       => out[j][2] < out[k][2]
            /\ \A k \in 1..n : IsFrameLine(out[k]) \/ IsEllipsis(out[k])
            /\ IF sz > 20
               THEN /\ n = 21
                    /\ {k \in 1..n : IsEllipsis(out[k])} = {11}
                    /\ out[10] = FrameLine(9)
                    /\ out[12] = FrameLine(sz - 10)
               ELSE /\ n = sz
                    /\ \A k \in 1..n : IsFrameLine(out[k])

C7_Witness ==
    /\ Exited
    /\ RuntimeErrorReported
    /\ Len(stackTrace) = 25
    /\ Len(TraceLines) = 21
    /\ IsEllipsis(TraceLines[11])

(***************************************************************************)
(* C8.  With debug_ast set, the static analyzer and the VM are never       *)
(* invoked, and a run whose parse succeeded has called the unparser after  *)
(* the parser, written exactly its text to standard output and exited with *)
(* success.                                                                *)
(***************************************************************************)
C8_DebugAstNeverExecutes ==
    debug_ast =>
        /\ ~Called(STATIC_ANALYSIS)
        /\ ~Called(VM_EXECUTE)
        /\ (Exited /\ Called(PARSE) /\ ~Written(cerr, StaticErrorLine[1])) =>
               /\ Len(calls) >= 2
               /\ Suffix(Fns, 2) = <<PARSE, UNPARSE>>
               /\ TimesCalled(UNPARSE) = 1
               /\ cout = <<UnparsedText(input)>>
               /\ cerr = << >>
               /\ exit_status = EXIT_SUCCESS

C8_Witness ==
    /\ debug_ast
    /\ filename_is_code
    /\ Exited
    /\ exit_status = EXIT_SUCCESS
    /\ Called(UNPARSE)

(***************************************************************************)
(* C9.  The pipeline is linear and short-circuiting: the calls made are a  *)
(* prefix of [input], parser, unparser or of [input], parser, analyzer,    *)
(* VM (each at most once); once anything was written to standard error the *)
(* process has exited; a failed open means no parser call, a StaticError   *)
(* no VM call; a failing run has written nothing to standard output and    *)
(* every run that reported an error exits with failure.                    *)
(***************************************************************************)
LinearOrders ==
    { acq \o tail : acq \in { << >>, <<READ_STDIN>>, <<OPEN_FILE>> },
                    tail \in { <<PARSE, UNPARSE>>,
                               <<PARSE, STATIC_ANALYSIS, VM_EXECUTE>> } }

C9_LinearPipeline ==
    /\ \E order \in LinearOrders : IsPrefix(Fns, order)
    /\ cerr # << >> => Exited /\ exit_status = EXIT_FAILURE
    /\ Written(cerr, "Opening input file: ") => ~Called(PARSE)
    /\ Written(cerr, StaticErrorLine[1]) => ~Called(VM_EXECUTE)
    /\ (Exited /\ exit_status = EXIT_FAILURE) => cout = << >>
    /\ (Exited /\ exit_status = EXIT_SUCCESS /\ StageCalled) =>
           Fns[Len(Fns)] \in {UNPARSE, VM_EXECUTE}

C9_Witness ==
    /\ Exited
    /\ exit_status = EXIT_FAILURE
    /\ Written(cerr, StaticErrorLine[1])
    /\ Called(STATIC_ANALYSIS)
    /\ cout = << >>

(***************************************************************************)
(* C10, as claimed.  With the exec flag set and no positional argument the *)
(* process fails before any pipeline stage.                                *)
(***************************************************************************)
C10_ExecWithoutCodeAlwaysFails ==
    (Exited /\ filename_is_code /\ Len(remaining_args) = 0) =>
        exit_status = EXIT_FAILURE /\ ~StageCalled

(***************************************************************************)
(* C10, amended.  When the option loop runs to its end with the exec flag  *)
(* set and no positional, the next step writes "Must give filename" and    *)
(* the usage text and exits with failure before any stage; and whenever    *)
(* the flag is set, no file is opened, standard input is not read, and the *)
(* parser is only invoked with the one positional, verbatim, as source     *)
(* text and <cmdline> as display name.                                     *)
(***************************************************************************)
ExecInputInv ==
    filename_is_code =>
        /\ ~Called(OPEN_FILE)
        /\ ~Called(READ_STDIN)
        /\ \A k \in 1..Len(calls) :
               calls[k].fn = PARSE =>
                   /\ Len(remaining_args) = 1
                   /\ calls[k].args = <<S_cmdline_name, remaining_args[1]>>

C10_ExecNeedsOnePositional ==
    /\ []ExecInputInv
    /\ [][(pc = "positionals" /\ filename_is_code /\ Len(remaining_args) = 0) =>
             /\ pc' = "exited"
             /\ exit_status' = EXIT_FAILURE
             /\ cerr' = cerr \o <<MustGiveFilenameLine, UsageText>>
             /\ calls' = << >>]_vars

C10_Witness ==
    /\ filename_is_code
    /\ Len(remaining_args) = 1
    /\ \E k \in 1..Len(calls) :
           calls[k].fn = PARSE /\ calls[k].args = <<S_cmdline_name, A_foo>>

=============================================================================
